---- MODULE Spec2Model ----
(***************************************************************************)
(* ClatShield 1.00: the password generator, the search-space estimator and *)
(* the interactive session loop of ClatShield(1.00).py.                    *)
(*                                                                         *)
(* Three specifications share the module:                                  *)
(*   Spec / FairSpec  generate_random_password, one step per statement     *)
(*   SpecSS           calculate_search_space_size as a pure function       *)
(*   SpecMain         the while-loop of main()                             *)
(* Characters are one-character strings, Python strings are sequences of   *)
(* characters, Python ints are sequences of base-2^16 limbs.               *)
(***************************************************************************)
EXTENDS Integers, Sequences, FiniteSets, TLC

VARIABLES
    \* generate_random_password: parameters, locals, outcome
    pc, length, use_lower, use_upper, use_digits, use_special, require_each,
    password_chars, result, error,
    \* calculate_search_space_size: position, arguments, return value
    ss_pc, ss_length, ss_all_chars, ss_result,
    \* main: position, the text typed at the length prompt, the locals
    \* length, include_*, require_each and search_space, the lines printed
    \* in the current iteration, the text typed at the exit prompt
    m_pc, length_text, main_length, include_lower, include_upper,
    include_digits, include_special, main_require_each, search_space,
    shown, user_choice

gen_vars == <<pc, length, use_lower, use_upper, use_digits, use_special,
              require_each, password_chars, result, error>>

ss_vars == <<ss_pc, ss_length, ss_all_chars, ss_result>>

main_vars == <<m_pc, length_text, main_length, include_lower, include_upper,
               include_digits, include_special, main_require_each,
               search_space, shown, user_choice>>

vars == <<gen_vars, ss_vars, main_vars>>

----------------------------------------------------------------------------
(* Bounds *)

\* Largest length argument handed to generate_random_password.
MaxLength == 3

\* Number of characters of each class pool that the generator draws from.
PoolWidth == 2

\* Largest length argument handed to calculate_search_space_size.
MaxSearchLength == 12

----------------------------------------------------------------------------
(* Character classes *)

ascii_lowercase ==
    <<"a","b","c","d","e","f","g","h","i","j","k","l","m",
      "n","o","p","q","r","s","t","u","v","w","x","y","z">>

ascii_uppercase ==
    <<"A","B","C","D","E","F","G","H","I","J","K","L","M",
      "N","O","P","Q","R","S","T","U","V","W","X","Y","Z">>

digits == <<"0","1","2","3","4","5","6","7","8","9">>

special ==
    <<"!","@","#","$","%","^","&","*","(",")","-","_","=","+",
      "[","]","{","}","|",";",":",",",".","<",">","?","/","\\">>

Range(s) == {s[i] : i \in 1..Len(s)}

Min(a, b) == IF a < b THEN a ELSE b

\* The first PoolWidth characters of a class pool.
Bounded(pool) == SubSeq(pool, 1, Min(PoolWidth, Len(pool)))

\* pools = [] followed by the four conditional appends.
BuildPools(lower, upper, dig, spec, lo, up, di, sp) ==
    (IF lower THEN <<lo>> ELSE <<>>) \o
    (IF upper THEN <<up>> ELSE <<>>) \o
    (IF dig   THEN <<di>> ELSE <<>>) \o
    (IF spec  THEN <<sp>> ELSE <<>>)

\* "".join(pools)
RECURSIVE Join(_)
Join(ps) == IF ps = <<>> THEN <<>> ELSE Head(ps) \o Join(Tail(ps))

\* The pools of the current call (each cut to PoolWidth characters).
pools ==
    BuildPools(use_lower, use_upper, use_digits, use_special,
               Bounded(ascii_lowercase), Bounded(ascii_uppercase),
               Bounded(digits), Bounded(special))

all_chars == Join(pools)

----------------------------------------------------------------------------
(* generate_random_password *)

\* Variant: the empty-pools check of lines 68-69 left out.
ValidateNoPoolCheck(len, ps, req) ==
    IF len < 1 THEN "invalid_length"
    ELSE IF req /\ len < Len(ps) THEN "too_short"
    ELSE "none"

\* Variant: the require_each check of lines 71-75 left out.
ValidateNoRequireCheck(len, ps, req) ==
    IF len < 1 THEN "invalid_length"
    ELSE IF ps = <<>> THEN "no_classes"
    ELSE "none"

\* The three argument checks, in the order the function makes them: the
\* error raised, or "none".
Validate(len, ps, req) ==
    IF len < 1 THEN "invalid_length"
    ELSE IF ps = <<>> THEN "no_classes"
    ELSE IF req /\ len < Len(ps) THEN "too_short"
    ELSE "none"

\* Variant: the seed drawn from the combined alphabet.
SeedChoicesAnyClass(ps, k) == Range(Join(ps))

\* What secrets.choice(pool) draws from when seeding the k-th class.

SeedChoices(ps, k) == Range(ps[k])

\* Variant: <= for <.
LoopConditionInclusive(chars, len) == Len(chars) <= len

\* The while condition of the fill loop.

LoopCondition(chars, len) == Len(chars) < len

\* Variant: no comparison with the previous character.
AcceptsAlways(chars, new_char) == TRUE

\* Variant: "password_chars and ..." for "not password_chars or ...".
AcceptsNonEmptyOnly(chars, new_char) ==
    chars # <<>> /\ new_char # chars[Len(chars)]

\* The test guarding the append in the fill loop.

Accepts(chars, new_char) ==
    chars = <<>> \/ new_char # chars[Len(chars)]

\* The orders SystemRandom().shuffle can leave a list of n items in.
ShuffleOrders(n) == Permutations(1..n)

\* A call with arguments drawn from the bounded sets.
GenInit ==
    /\ pc = "call"
    /\ length \in (0 - 1)..MaxLength
    /\ use_lower \in BOOLEAN
    /\ use_upper \in BOOLEAN
    /\ use_digits \in BOOLEAN
    /\ use_special \in BOOLEAN
    /\ require_each \in BOOLEAN
    /\ password_chars = <<>>
    /\ result = <<>>
    /\ error = "none"

\* Lines 55-75: raise on a bad argument, otherwise start assembling.
CheckArgs ==
    /\ pc = "call"
    /\ error' = Validate(length, pools, require_each)
    /\ pc' = IF error' # "none" THEN "raised"
             ELSE IF require_each THEN "seed" ELSE "fill"
    /\ UNCHANGED <<length, use_lower, use_upper, use_digits, use_special,
                   require_each, password_chars, result>>
    /\ UNCHANGED <<ss_vars, main_vars>>

\* Lines 80-82: one iteration of "for pool in pools".
Seed ==
    /\ pc = "seed"
    /\ \E c \in SeedChoices(pools, Len(password_chars) + 1) :
          password_chars' = Append(password_chars, c)
    /\ pc' = IF Len(password_chars') = Len(pools) THEN "fill" ELSE "seed"
    /\ UNCHANGED <<length, use_lower, use_upper, use_digits, use_special,
                   require_each, result, error>>
    /\ UNCHANGED <<ss_vars, main_vars>>

\* Lines 84-87: one iteration of the while loop; a rejected draw changes
\* nothing.
Fill ==
    /\ pc = "fill"
    /\ LoopCondition(password_chars, length)
    /\ \E new_char \in Range(all_chars) :
          password_chars' = IF Accepts(password_chars, new_char)
                            THEN Append(password_chars, new_char)
                            ELSE password_chars
    /\ UNCHANGED <<pc, length, use_lower, use_upper, use_digits, use_special,
                   require_each, result, error>>
    /\ UNCHANGED <<ss_vars, main_vars>>

\* Lines 89-90: the loop is left, the list is shuffled in place and joined.
Shuffle ==
    /\ pc = "fill"
    /\ ~LoopCondition(password_chars, length)
    /\ \E p \in ShuffleOrders(Len(password_chars)) :
          password_chars' =
              [i \in 1..Len(password_chars) |-> password_chars[p[i]]]
    /\ result' = password_chars'
    /\ pc' = "returned"
    /\ UNCHANGED <<length, use_lower, use_upper, use_digits, use_special,
                   require_each, error>>
    /\ UNCHANGED <<ss_vars, main_vars>>

\* The generator when another specification runs.
GenIdle ==
    /\ pc = "idle"
    /\ length = 0
    /\ use_lower = FALSE
    /\ use_upper = FALSE
    /\ use_digits = FALSE
    /\ use_special = FALSE
    /\ require_each = FALSE
    /\ password_chars = <<>>
    /\ result = <<>>
    /\ error = "none"

----------------------------------------------------------------------------
(* Python's int: little-endian sequences of base-2^16 limbs, no leading    *)
(* zero limb; zero is the empty sequence.                                  *)

LimbBase == 2^16

BigZero == <<>>

BigOne == <<1>>

\* x * m, for 0 < m < 2^15.  Limb i of the product is the low half of
\* x[i] * m plus the high half of x[i-1] * m plus the carry into i; the
\* carry into i is 1 when a lower position overflows and every position
\* in between is full.
BigMulSmall(x, m) ==
    LET n == Len(x)
        S == SubSeq([i \in 1..(n + 1) |->
                        (IF i <= n THEN (x[i] * m) % LimbBase ELSE 0) +
                        (IF i >= 2 THEN (x[i - 1] * m) \div LimbBase ELSE 0)],
                    1, n + 1)
        C(i) == \E j \in 1..(i - 1) :
                   /\ S[j] >= LimbBase
                   /\ \A k \in (j + 1)..(i - 1) : S[k] = LimbBase - 1
        R == SubSeq([i \in 1..(n + 1) |->
                        (S[i] + (IF C(i) THEN 1 ELSE 0)) % LimbBase],
                    1, n + 1)
    IN  IF R[n + 1] = 0 THEN SubSeq(R, 1, n) ELSE R

\* x * a ** n, for n >= 0: the n multiplications, split in halves
RECURSIVE BigMulPow(_, _, _)
BigMulPow(x, a, n) ==
    IF n = 0 THEN x
    ELSE IF n = 1 THEN BigMulSmall(x, a)
    ELSE LET half == BigMulPow(x, a, n \div 2)
         IN  IF half = BigZero THEN BigZero
             ELSE BigMulPow(half, a, n - (n \div 2))

\* a ** n, for n >= 0
BigPow(a, n) == BigMulPow(BigOne, a, n)

\* Quotient and remainder of x by d, for 0 < d < 2^15
RECURSIVE BigDivSmall(_, _)
BigDivSmall(x, d) ==
    IF x = <<>>
    THEN [q |-> <<>>, r |-> 0]
    ELSE LET hi == BigDivSmall(Tail(x), d)
             t  == hi.r * LimbBase + Head(x)
         IN  [q |-> IF hi.q = <<>> /\ t \div d = 0
                    THEN <<>>
                    ELSE <<t \div d>> \o hi.q,
              r |-> t % d]

\* x >= y: more limbs, or as many and the highest differing limb larger
BigGeq(x, y) ==
    IF Len(x) # Len(y) THEN Len(x) > Len(y)
    ELSE \/ x = y
         \/ \E i \in 1..Len(x) :
               /\ x[i] > y[i]
               /\ \A j \in (i + 1)..Len(x) : x[j] = y[j]

----------------------------------------------------------------------------
(* calculate_search_space_size *)

\* x without its leading zero limbs
RECURSIVE BigCanonical(_)
BigCanonical(x) ==
    IF x # <<>> /\ x[Len(x)] = 0
    THEN BigCanonical(SubSeq(x, 1, Len(x) - 1))
    ELSE x

\* Variant: the power kept in a 64-bit unsigned integer (the low four limbs).
calculate_search_space_size_u64(len, chars) ==
    IF chars = <<>> \/ len <= 0
    THEN BigZero
    ELSE LET full == BigPow(Len(chars), len)
         IN  BigCanonical(SubSeq(full, 1, Min(4, Len(full))))

\* Lines 39-41: 0 for an empty alphabet or a length <= 0, else
\* len(all_chars) ** length.
calculate_search_space_size(len, chars) ==
    IF chars = <<>> \/ len <= 0
    THEN BigZero
    ELSE BigPow(Len(chars), len)

\* all_chars as main builds it from the four flags (full class pools).
MainAllChars(lower, upper, dig, spec) ==
    Join(BuildPools(lower, upper, dig, spec,
                    ascii_lowercase, ascii_uppercase, digits, special))

SSInit ==
    /\ ss_pc = "call"
    /\ ss_length \in (0 - 1)..MaxSearchLength
    /\ ss_all_chars \in {MainAllChars(l, u, d, s) : l, u, d, s \in BOOLEAN}
    /\ ss_result = BigZero

\* The estimator when another specification runs.
SSIdle ==
    /\ ss_pc = "idle"
    /\ ss_length = 0
    /\ ss_all_chars = <<>>
    /\ ss_result = BigZero

\* Lines 39-41.
SearchSpaceCall ==
    /\ ss_pc = "call"
    /\ ss_result' = calculate_search_space_size(ss_length, ss_all_chars)
    /\ ss_pc' = "returned"
    /\ UNCHANGED <<ss_length, ss_all_chars, gen_vars, main_vars>>

----------------------------------------------------------------------------
(* Console input: what str.strip, str.lower and int do to a typed line     *)

Whitespace == {" ", "\t"}

RECURSIVE LStrip(_)
LStrip(s) ==
    IF s # <<>> /\ Head(s) \in Whitespace THEN LStrip(Tail(s)) ELSE s

RECURSIVE RStrip(_)
RStrip(s) ==
    IF s # <<>> /\ s[Len(s)] \in Whitespace
    THEN RStrip(SubSeq(s, 1, Len(s) - 1))
    ELSE s

Strip(s) == LStrip(RStrip(s))

LowerChar(c) ==
    IF c \in Range(ascii_uppercase)
    THEN ascii_lowercase[CHOOSE i \in 1..Len(ascii_uppercase) :
                             ascii_uppercase[i] = c]
    ELSE c

Lower(s) == [i \in 1..Len(s) |-> LowerChar(s[i])]

DigitValue(c) == CHOOSE d \in 0..9 : digits[d + 1] = c

RECURSIVE DecimalValue(_)
DecimalValue(s) ==
    IF s = <<>> THEN 0
    ELSE DecimalValue(SubSeq(s, 1, Len(s) - 1)) * 10 + DigitValue(s[Len(s)])

\* int(text): surrounding whitespace, an optional sign, decimal digits;
\* anything else is a ValueError.
ParseInt(text) ==
    LET s      == Strip(text)
        signed == s # <<>> /\ s[1] \in {"+", "-"}
        body   == IF signed THEN Tail(s) ELSE s
        ok     == body # <<>> /\ \A i \in 1..Len(body) : body[i] \in Range(digits)
    IN  [ok    |-> ok,
         value |-> IF ~ok THEN 0
                   ELSE IF signed /\ s[1] = "-" THEN 0 - DecimalValue(body)
                   ELSE DecimalValue(body)]

get_bool_input(answer, default) ==
    LET a == Lower(Strip(answer))
    IN  IF a \in {<<"y">>, <<"y","e","s">>} THEN TRUE
        ELSE IF a \in {<<"n">>, <<"n","o">>} THEN FALSE
        ELSE default

\* Lines typed at the length prompt.
LengthTexts ==
    { <<"a","b","c">>, <<>>, <<"1",".","5">>, <<"0">>, <<"-","1">>,
      <<"2">>, <<" ","4"," ">>, <<"+","1","2">>, <<"1","5","7">>,
      <<"1","5","8">> }

\* Lines typed at a yes/no prompt.
BoolTexts ==
    { <<"y">>, <<"Y","E","S">>, <<" ","n"," ">>, <<"N","o">>, <<>>,
      <<"m","a","y","b","e">> }

\* Lines typed at the exit prompt.
ExitTexts ==
    { <<>>, <<"e","x","i","t">>, <<"E","X","I","T">>, <<"E","x","i","t">>,
      <<"e","x","i","t"," ">>, <<"q","u","i","t">>, <<"e","x","i">> }

----------------------------------------------------------------------------
(* main *)

DefaultLength == 12

\* Variant: no default substituted on a ValueError.
LengthFromInputNoDefault(text) == ParseInt(text).value

\* Lines 104-108: the parsed length, or the default on a ValueError.
LengthFromInput(text) ==
    IF ParseInt(text).ok THEN ParseInt(text).value ELSE DefaultLength

\* The smallest int that float() refuses with OverflowError:
\* 2^1024 - 2^970, halfway between the largest double and 2^1024.
FloatOverflowThreshold ==
    [i \in 1..64 |-> IF i <= 60 THEN 0
                     ELSE IF i = 61 THEN 2^16 - 2^10
                     ELSE 2^16 - 1]

\* Line 146: int / float converts the int to a float first.
TrueDivOverflows(n) == BigGeq(n, FloatOverflowThreshold)

MainPools ==
    BuildPools(include_lower, include_upper, include_digits, include_special,
               ascii_lowercase, ascii_uppercase, digits, special)

\* Entering the while loop of line 103; the locals are not assigned yet.
MainInit ==
    /\ m_pc = "ask_length"
    /\ length_text = <<>>
    /\ main_length = 0
    /\ include_lower = FALSE
    /\ include_upper = FALSE
    /\ include_digits = FALSE
    /\ include_special = FALSE
    /\ main_require_each = FALSE
    /\ search_space = BigZero
    /\ shown = <<>>
    /\ user_choice = <<>>

\* The session when another specification runs.
MainIdle ==
    /\ m_pc = "idle"
    /\ length_text = <<>>
    /\ main_length = 0
    /\ include_lower = FALSE
    /\ include_upper = FALSE
    /\ include_digits = FALSE
    /\ include_special = FALSE
    /\ main_require_each = FALSE
    /\ search_space = BigZero
    /\ shown = <<>>
    /\ user_choice = <<>>

\* Lines 104-108.
AskLength ==
    /\ m_pc = "ask_length"
    /\ \E text \in LengthTexts :
          /\ length_text' = text
          /\ main_length' = LengthFromInput(text)
          /\ shown' = IF ParseInt(text).ok THEN <<>>
                      ELSE <<"Invalid length. Using a default value of 12.">>
    /\ m_pc' = "ask_lower"
    /\ UNCHANGED <<include_lower, include_upper, include_digits,
                   include_special, main_require_each, search_space,
                   user_choice, gen_vars, ss_vars>>

\* Line 110.
AskLower ==
    /\ m_pc = "ask_lower"
    /\ \E answer \in BoolTexts : include_lower' = get_bool_input(answer, TRUE)
    /\ m_pc' = "ask_upper"
    /\ UNCHANGED <<length_text, main_length, include_upper, include_digits,
                   include_special, main_require_each, search_space, shown,
                   user_choice, gen_vars, ss_vars>>

\* Line 111.
AskUpper ==
    /\ m_pc = "ask_upper"
    /\ \E answer \in BoolTexts : include_upper' = get_bool_input(answer, TRUE)
    /\ m_pc' = "ask_digits"
    /\ UNCHANGED <<length_text, main_length, include_lower, include_digits,
                   include_special, main_require_each, search_space, shown,
                   user_choice, gen_vars, ss_vars>>

\* Line 112.
AskDigits ==
    /\ m_pc = "ask_digits"
    /\ \E answer \in BoolTexts : include_digits' = get_bool_input(answer, TRUE)
    /\ m_pc' = "ask_special"
    /\ UNCHANGED <<length_text, main_length, include_lower, include_upper,
                   include_special, main_require_each, search_space, shown,
                   user_choice, gen_vars, ss_vars>>

\* Line 113.
AskSpecial ==
    /\ m_pc = "ask_special"
    /\ \E answer \in BoolTexts : include_special' = get_bool_input(answer, TRUE)
    /\ m_pc' = "ask_require"
    /\ UNCHANGED <<length_text, main_length, include_lower, include_upper,
                   include_digits, main_require_each, search_space, shown,
                   user_choice, gen_vars, ss_vars>>

\* Line 114.
AskRequire ==
    /\ m_pc = "ask_require"
    /\ \E answer \in BoolTexts :
          main_require_each' = get_bool_input(answer, FALSE)
    /\ m_pc' = "generate"
    /\ UNCHANGED <<length_text, main_length, include_lower, include_upper,
                   include_digits, include_special, search_space, shown,
                   user_choice, gen_vars, ss_vars>>

\* What generate_random_password does with main's arguments: the error it
\* raises, or "none" when it returns a password.
GenerationError == Validate(main_length, MainPools, main_require_each)

\* Lines 116-154: the try block.  The password's characters and the entropy
\* are printed and not kept; the model records which lines are printed.
GenerateAndReport ==
    /\ m_pc = "generate"
    /\ IF GenerationError # "none"
       THEN /\ shown' = Append(shown, GenerationError)
            /\ m_pc' = "ask_exit"
            /\ UNCHANGED search_space
       ELSE /\ search_space' =
                   calculate_search_space_size(
                       main_length,
                       MainAllChars(include_lower, include_upper,
                                    include_digits, include_special))
            /\ IF search_space' = BigZero
               THEN /\ shown' = shown \o <<"Generated Password", "Entropy",
                                           "Search Space Size">>
                    /\ m_pc' = "ask_exit"
               ELSE IF TrueDivOverflows(search_space')
               THEN /\ shown' = shown \o <<"Generated Password", "Entropy",
                                           "Search Space Size">>
                    /\ m_pc' = "crashed"
               ELSE /\ shown' = shown \o <<"Generated Password", "Entropy",
                                           "Search Space Size",
                                           "Approx. time to brute force">>
                    /\ m_pc' = "ask_exit"
    /\ UNCHANGED <<length_text, main_length, include_lower, include_upper,
                   include_digits, include_special, main_require_each,
                   user_choice, gen_vars, ss_vars>>

\* Lines 156-158: break on "exit", otherwise the next iteration.  The locals
\* of the finished iteration are dead (each is assigned again before it is
\* read): the model clears them when the loop continues.
AskExit ==
    /\ m_pc = "ask_exit"
    /\ \E text \in ExitTexts :
          /\ user_choice' = text
          /\ IF Lower(text) = <<"e","x","i","t">>
             THEN /\ m_pc' = "done"
                  /\ UNCHANGED <<length_text, main_length, include_lower,
                                 include_upper, include_digits,
                                 include_special, main_require_each,
                                 search_space, shown>>
             ELSE /\ m_pc' = "ask_length"
                  /\ length_text' = <<>>
                  /\ main_length' = 0
                  /\ include_lower' = FALSE
                  /\ include_upper' = FALSE
                  /\ include_digits' = FALSE
                  /\ include_special' = FALSE
                  /\ main_require_each' = FALSE
                  /\ search_space' = BigZero
                  /\ shown' = <<>>
    /\ UNCHANGED <<gen_vars, ss_vars>>

----------------------------------------------------------------------------
(* Specifications *)

Init == GenInit /\ SSIdle /\ MainIdle

Next == CheckArgs \/ Seed \/ Fill \/ Shuffle

Spec == Init /\ [][Next]_vars

\* The random draws are fair: a draw the loop accepts is not avoided for ever.
FairSpec == Spec /\ WF_vars(Next)

InitSS == GenIdle /\ SSInit /\ MainIdle

NextSS == SearchSpaceCall

SpecSS == InitSS /\ [][NextSS]_vars

InitMain == GenIdle /\ SSIdle /\ MainInit

NextMain ==
    \/ AskLength \/ AskLower \/ AskUpper \/ AskDigits \/ AskSpecial
    \/ AskRequire \/ GenerateAndReport \/ AskExit

SpecMain == InitMain /\ [][NextMain]_vars

----------------------------------------------------------------------------
(* Properties of generate_random_password (Spec, FairSpec) *)

NoAdjacentEqual(s) == \A i \in 1..(Len(s) - 1) : s[i] # s[i + 1]

BoolCount(b) == IF b THEN 1 ELSE 0

\* Number of class flags that are true.
NumSelected ==
    BoolCount(use_lower) + BoolCount(use_upper) +
    BoolCount(use_digits) + BoolCount(use_special)

\* length >= 1, some class selected, room for one character of every
\* selected class when each is required.
ValidConfiguration ==
    /\ length >= 1
    /\ NumSelected >= 1
    /\ require_each => length >= NumSelected

Contains(s, pool) == \E i \in 1..Len(s) : s[i] \in Range(pool)

\* C1: a returned password of length >= 2 has no two adjacent equal
\* characters.  The final shuffle does not keep what the fill loop
\* established, so this fails.
C1_NoAdjacentAfterShuffle ==
    (pc = "returned" /\ Len(result) >= 2) => NoAdjacentEqual(result)

\* C2: for every valid configuration the call raises nothing and the
\* string it returns has exactly `length` characters.
C2_ExactLength ==
    ValidConfiguration =>
        /\ pc # "raised"
        /\ pc = "returned" => Len(result) = length

C2_Witness ==
    /\ pc = "returned"
    /\ ValidConfiguration
    /\ length >= 3
    /\ Len(result) = length

\* C3: with require_each, the returned (shuffled) password holds at least
\* one character of the pool of every selected class.
C3_EachClassPresent ==
    (require_each /\ pc = "returned") =>
        /\ use_lower   => Contains(result, Bounded(ascii_lowercase))
        /\ use_upper   => Contains(result, Bounded(ascii_uppercase))
        /\ use_digits  => Contains(result, Bounded(digits))
        /\ use_special => Contains(result, Bounded(special))

C3_Witness ==
    /\ pc = "returned"
    /\ require_each
    /\ NumSelected >= 2
    /\ length > NumSelected
    /\ result[1] \in Range(Bounded(special))

\* C4 as stated: with all four flags false the call fails with the
\* no-character-classes error, whatever the length.
C4_NoClassesAnyLength ==
    (NumSelected = 0 /\ pc # "call") =>
        (pc = "raised" /\ error = "no_classes")

\* C4 amended: with all four flags false and length >= 1 the call fails
\* with the no-character-classes error, whatever require_each is.
C4_NoClassesPositiveLength ==
    (NumSelected = 0 /\ length >= 1 /\ pc # "call") =>
        (pc = "raised" /\ error = "no_classes")

C4_Witness ==
    /\ NumSelected = 0
    /\ length >= 1
    /\ require_each
    /\ pc = "raised"
    /\ error = "no_classes"

\* C5 as stated: with require_each and length below the number of selected
\* classes the call fails with the too-short error and builds no password.
C5_TooShortWhenever ==
    (require_each /\ length < NumSelected /\ pc # "call") =>
        /\ pc = "raised"
        /\ error = "too_short"
        /\ password_chars = <<>>
        /\ result = <<>>

\* C5 amended: the same for 1 <= length < number of selected classes.
C5_TooShortPositiveLength ==
    (require_each /\ 1 <= length /\ length < NumSelected /\ pc # "call") =>
        /\ pc = "raised"
        /\ error = "too_short"
        /\ password_chars = <<>>
        /\ result = <<>>

C5_Witness ==
    /\ require_each
    /\ length = 2
    /\ NumSelected = 4
    /\ pc = "raised"
    /\ error = "too_short"

\* C9: while the list is assembled (seeding, then every append of the fill
\* loop) and before the shuffle, no two adjacent characters are equal.
C9_NoAdjacentDuringAssembly ==
    pc \in {"seed", "fill"} => NoAdjacentEqual(password_chars)

C9_Witness ==
    /\ pc = "fill"
    /\ require_each
    /\ NumSelected >= 2
    /\ Len(password_chars) > NumSelected

\* C10: under fair draws every valid call returns, and whenever the fill
\* loop still has to append, some character of the combined alphabet differs
\* from the last one appended.
C10_FillTerminates ==
    /\ ValidConfiguration ~> (pc = "returned")
    /\ [](   (pc = "fill" /\ Len(password_chars) < length)
          => \E c \in Range(all_chars) :
                 \/ password_chars = <<>>
                 \/ c # password_chars[Len(password_chars)])

C10_Witness ==
    /\ pc = "returned"
    /\ NumSelected = 1
    /\ ~require_each
    /\ length >= 3

----------------------------------------------------------------------------
(* Properties of calculate_search_space_size (SpecSS) *)

\* x = a ** n, by n exact divisions
RECURSIVE IsPower(_, _, _)
IsPower(x, a, n) ==
    IF n = 0 THEN x = BigOne
    ELSE LET d == BigDivSmall(x, a)
         IN  d.r = 0 /\ IsPower(d.q, a, n - 1)

\* C6: the result is 0 for an empty alphabet or a length <= 0, and exactly
\* A^L otherwise, also when A^L needs more than 64 bits.
C6_SearchSpaceExact ==
    ss_pc = "returned" =>
        IF Len(ss_all_chars) = 0 \/ ss_length <= 0
        THEN ss_result = BigZero
        ELSE IsPower(ss_result, Len(ss_all_chars), ss_length)

\* 90^12, which takes five 16-bit limbs
C6_Witness ==
    /\ ss_pc = "returned"
    /\ Len(ss_all_chars) = 90
    /\ ss_length = 12
    /\ Len(ss_result) > 4

----------------------------------------------------------------------------
(* Properties of main (SpecMain) *)

Exit == <<"e","x","i","t">>

ErrorKinds == {"invalid_length", "no_classes", "too_short"}

ReportLines ==
    {"Generated Password", "Entropy", "Search Space Size",
     "Approx. time to brute force"}

\* The part of C7 about a failed generation: the error is printed, no
\* password or metric is, and the exit prompt follows.
GenerationFailureHandled ==
    [][(m_pc = "generate" /\ GenerationError # "none") =>
          /\ m_pc' = "ask_exit"
          /\ GenerationError \in Range(shown')
          /\ Range(shown') \cap ReportLines = {}]_vars

\* C7: a failed generation prints the error, no password or metrics, and
\* goes to the exit prompt; the session ends only at the exit prompt, on a
\* line that is "exit" up to case.
C7_SessionEndsOnlyOnExit ==
    [][/\ (m_pc = "generate" /\ GenerationError # "none") =>
             /\ m_pc' = "ask_exit"
             /\ GenerationError \in Range(shown')
             /\ Range(shown') \cap ReportLines = {}
       /\ (m_pc' \in {"done", "crashed"} /\ m_pc \notin {"done", "crashed"}) =>
             /\ m_pc = "ask_exit"
             /\ m_pc' = "done"
             /\ Lower(user_choice') = Exit]_vars

\* Lines that are no integer.
NonIntegerTexts == { <<"a","b","c">>, <<>>, <<"1",".","5">> }

\* C8: once a line that is no integer was typed at the length prompt, the
\* iteration runs with length 12 through the class prompts and the
\* generation, it says so, and it does not fail.
C8_DefaultLengthOnParseFailure ==
    (m_pc \notin {"ask_length", "idle"} /\ length_text \in NonIntegerTexts) =>
        /\ main_length = 12
        /\ m_pc # "crashed"
        /\ shown # <<>>
        /\ shown[1] = "Invalid length. Using a default value of 12."

C8_Witness ==
    /\ m_pc = "ask_exit"
    /\ length_text = <<"a","b","c">>
    /\ main_length = 12
    /\ "Generated Password" \in Range(shown)

====
